---------------------------- MODULE Spec2Model ----------------------------
(*************************************************************************)
(* Model of the DH / ECDH key exchange of client.py, server.py and of    *)
(* the curve arithmetic of ec.py.                                        *)
(*                                                                       *)
(* Python values: None is the empty tuple, an affine point is <<x, y>>,  *)
(* a bytes object is a tuple of integers in 0..255.  An exception raised *)
(* by the arithmetic (pow(x, -1, m) on a non-invertible x) is the value  *)
(* ValueError, which every caller passes on unchanged.                   *)
(*************************************************************************)
EXTENDS Integers, Sequences, FiniteSets, TLC

\* ---------------------------------------------------------------- bounds
\* Largest scalar handed to point_mul.
MaxScalar == 40
\* Largest DH private exponent drawn (the code draws 4096 random bits).
MaxPriv == 24
\* Largest integer an interfering peer puts on the wire.
MaxWire == 24
\* Width, in bytes, of the DH frame (the code's frame is 8192 bytes).
FrameLen == 3

\* ------------------------------------------------------------- constants
None == <<>>
ValueError == <<-1>>

\* toy_curve with the field prime 17 given as the order n.
toy_curve_n_is_p == [p |-> 17, a |-> 2, b |-> 2, G |-> <<5, 1>>, n |-> 17, h |-> 1]

\* ec.py: toy_curve
toy_curve == [p |-> 17, a |-> 2, b |-> 2, G |-> <<5, 1>>, n |-> 19, h |-> 1]

\* A second instance of Curve used as input to the arithmetic: ten points,
\* cyclic, with the 2-torsion point (2, 0); G = (0, 2) has order 10.
small_curve == [p |-> 7, a |-> 1, b |-> 4, G |-> <<0, 2>>, n |-> 10, h |-> 1]

Curves == {toy_curve, small_curve}

\* The curve client.py and server.py import.  secp256r1 is a 256-bit curve;
\* the exchange is run on toy_curve, an instance of the same class.
curve_secp256r1 == toy_curve

\* common.py: p, g (the small test modulus and generator)
dh_p == 23
dh_g == 5

\* ------------------------------------------------------------ arithmetic
\* Python's pow(x, -1, m): the inverse of x modulo m, ValueError when x
\* is not invertible.  NoInverse is the marker of that exception.
NoInverse == -1

inv_mod(x, m) ==
    LET r == x % m
    IN  IF \E i \in 1..(m - 1) : (r * i) % m = 1
        THEN CHOOSE i \in 1..(m - 1) : (r * i) % m = 1
        ELSE NoInverse

\* pow multiplying by the base on the 0 bits of e, not on the 1 bits.
RECURSIVE pow_wrong_bit(_, _, _)
pow_wrong_bit(base, e, m) ==
    IF e = 0 THEN 1 % m
    ELSE LET h2 == pow_wrong_bit(base, e \div 2, m)
             sq == (h2 * h2) % m
         IN  IF e % 2 = 0 THEN (sq * (base % m)) % m ELSE sq

\* Python's pow(base, e, m) for e >= 0.
RECURSIVE pow(_, _, _)
pow(base, e, m) ==
    IF e = 0 THEN 1 % m
    ELSE LET h2 == pow(base, e \div 2, m)
             sq == (h2 * h2) % m
         IN  IF e % 2 = 1 THEN (sq * (base % m)) % m ELSE sq

on_curve(c, pt) ==
    \/ pt = None
    \/ /\ Len(pt) = 2
       /\ pt[1] \in 0..(c.p - 1)
       /\ pt[2] \in 0..(c.p - 1)
       /\ (pt[2] * pt[2] - (pt[1] * pt[1] * pt[1] + c.a * pt[1] + c.b)) % c.p = 0

\* The valid points of a curve: infinity and the affine solutions.
Points(c) ==
    {None} \cup {pt \in (0..(c.p - 1)) \X (0..(c.p - 1)) : on_curve(c, pt)}

\* double_slope with the curve coefficient a left out of the numerator.
double_slope_no_a(c, p) ==
    LET s1 == (3 * ((p[1] * p[1]) % c.p)) % c.p
        s2 == inv_mod(2 * p[2], c.p)
    IN  IF s2 = NoInverse THEN NoInverse ELSE (s1 * s2) % c.p

\* Curve.point_add, p == q: the slope s of the tangent (lines 59-62).
double_slope(c, p) ==
    LET s1 == (3 * ((p[1] * p[1]) % c.p) + c.a) % c.p
        s2 == inv_mod(2 * p[2], c.p)
    IN  IF s2 = NoInverse THEN NoInverse ELSE (s1 * s2) % c.p

\* Curve.point_add, p != q: the slope s of the chord (lines 69-72).
add_slope(c, p, q) ==
    LET s1 == (q[2] - p[2]) % c.p
        s2 == inv_mod(q[1] - p[1], c.p)
    IN  IF s2 = NoInverse THEN NoInverse ELSE (s1 * s2) % c.p

\* Curve.point_add, the doubling branch (lines 58-67).
point_double(c, p) ==
    LET px == p[1]
        py == p[2]
        s  == double_slope(c, p)
        rx == (((s * s) % c.p) - 2 * px) % c.p
        ry == (s * (px - rx) - py) % c.p
    IN  IF s = NoInverse THEN ValueError ELSE <<rx, ry>>

\* point_add_distinct with rx computed as in the doubling branch (- 2*px).
point_add_distinct_rx(c, p, q) ==
    LET px == p[1]
        py == p[2]
        s  == add_slope(c, p, q)
        rx == (((s * s) % c.p) - 2 * px) % c.p
        ry == (s * (px - rx) - py) % c.p
    IN  IF s = NoInverse THEN ValueError ELSE <<rx, ry>>

\* Curve.point_add, the branch of two distinct points (lines 68-77).
point_add_distinct(c, p, q) ==
    LET px == p[1]
        py == p[2]
        qx == q[1]
        s  == add_slope(c, p, q)
        rx == (((s * s) % c.p) - (px + qx)) % c.p
        ry == (s * (px - rx) - py) % c.p
    IN  IF s = NoInverse THEN ValueError ELSE <<rx, ry>>

\* point_add returning p, not q, when p is None.
point_add_none_swapped(c, p, q) ==
    IF p = ValueError \/ q = ValueError THEN ValueError
    ELSE IF p = None THEN p
    ELSE IF q = None THEN q
    ELSE IF p[1] = q[1] /\ (p[2] # q[2] \/ p[2] = 0) THEN None
    ELSE IF p = q THEN point_double(c, p)
    ELSE point_add_distinct(c, p, q)

\* point_add without the test py == 0 of line 55.
point_add_no_torsion(c, p, q) ==
    IF p = ValueError \/ q = ValueError THEN ValueError
    ELSE IF p = None THEN q
    ELSE IF q = None THEN p
    ELSE IF p[1] = q[1] /\ p[2] # q[2] THEN None
    ELSE IF p = q THEN point_double(c, p)
    ELSE point_add_distinct(c, p, q)

\* Curve.point_add
point_add(c, p, q) ==
    IF p = ValueError \/ q = ValueError THEN ValueError
    ELSE IF p = None THEN q
    ELSE IF q = None THEN p
    ELSE IF p[1] = q[1] /\ (p[2] # q[2] \/ p[2] = 0) THEN None
    ELSE IF p = q THEN point_double(c, p)
    ELSE point_add_distinct(c, p, q)

\* point_mul_loop doubling a only when the bit is 0.
RECURSIVE point_mul_loop_skip(_, _, _, _)
point_mul_loop_skip(c, k, r, a) ==
    IF k > 0
    THEN point_mul_loop_skip(c, k \div 2,
                             IF k % 2 = 1 THEN point_add(c, r, a) ELSE r,
                             IF k % 2 = 1 THEN a ELSE point_add(c, a, a))
    ELSE r

\* The while loop of Curve.point_mul: r the accumulator, a the doubled point.
RECURSIVE point_mul_loop(_, _, _, _)
point_mul_loop(c, k, r, a) ==
    IF k > 0
    THEN point_mul_loop(c, k \div 2,
                        IF k % 2 = 1 THEN point_add(c, r, a) ELSE r,
                        point_add(c, a, a))
    ELSE r

\* point_mul with the accumulator r starting at p, not at None.
point_mul_r_from_p(c, k, p) == point_mul_loop(c, k, p, p)

\* Curve.point_mul
point_mul(c, k, p) == point_mul_loop(c, k, None, p)

\* negate(p) = (p.x, -p.y mod prime)
negate(c, p) == <<p[1], (0 - p[2]) % c.p>>

\* generate_keys multiplying by priv - 1 (the scalar counted from 0).
generate_keys_from_0(c, priv) == <<priv, point_mul(c, priv - 1, c.G)>>

\* Curve.generate_keys with the drawn scalar priv (random.randint(1, n - 1)).
generate_keys(c, priv) == <<priv, point_mul(c, priv, c.G)>>

\* Every pair of reduced coordinates, on the curve or not, and infinity.
AllPairs(c) == {None} \cup ((0..(c.p - 1)) \X (0..(c.p - 1)))

\* ----------------------------------------------------------------- state
VARIABLES
    calc,       \* the last call of the curve arithmetic: its inputs and result
    mode,       \* args.ec of both processes: "dh" or "ec"
    pc,         \* pc[r]: where process r stands
    priv,       \* c_priv / s_priv
    pub,        \* c_pub / s_pub (own public value)
    data,       \* the bytes recv returned
    peer,       \* the decoded public value of the peer
    shared,     \* the shared value
    files,      \* files[r]: which of r's three files have been written
    err,        \* the exception that ended process r, None if none
    chan,       \* chan[r]: the frames sent to r and not yet received
    sock,       \* the sockets: the client's, the listening one, the accepted one
    backlog,    \* connections made and not yet accepted
    disk_ok     \* whether open(..., "w") succeeds

protoVars == <<mode, pc, priv, pub, data, peer, shared, files, err, chan, sock,
               backlog, disk_ok>>

vars == <<calc, mode, pc, priv, pub, data, peer, shared, files, err, chan, sock,
          backlog, disk_ok>>

Roles == {"client", "server"}

AllFiles == {"priv", "pub", "shared"}

Terminal == {"Exited", "Failed"}

\* An integer local variable not yet assigned.
Unset == -1

ProtoInit ==
    /\ mode \in {"dh", "ec"}
    /\ pc = [r \in Roles |-> "Idle"]
    /\ priv = [r \in Roles |-> Unset]
    /\ pub = [r \in Roles |-> None]
    /\ data = [r \in Roles |-> None]
    /\ peer = [r \in Roles |-> Unset]
    /\ shared = [r \in Roles |-> Unset]
    /\ files = [r \in Roles |-> {}]
    /\ err = [r \in Roles |-> "none"]
    /\ chan = [r \in Roles |-> <<>>]
    /\ sock = [client |-> "none", listen |-> "none", conn |-> "none"]
    /\ backlog = 0
    /\ disk_ok = TRUE

\* ------------------------------------------------- the arithmetic, called
\* One call per behaviour: a call is made from the state of no call yet.
NoCall == [fn |-> "none", c |-> toy_curve, k |-> 0, m |-> 0,
           p |-> None, q |-> None, out |-> None, out2 |-> None]

\* curve.point_add(p, q) on two valid points
CalcPointAdd ==
    /\ calc.fn = "none"
    /\ UNCHANGED protoVars
    /\ \E c \in Curves : \E p \in Points(c) : \E q \in Points(c) :
        calc' = [fn |-> "point_add", c |-> c, k |-> 0, m |-> 0, p |-> p, q |-> q,
                    out |-> point_add(c, p, q), out2 |-> None]

\* curve.point_mul(k, p) on any pair of reduced coordinates
CalcPointMul ==
    /\ calc.fn = "none"
    /\ UNCHANGED protoVars
    /\ \E c \in Curves : \E k \in 0..MaxScalar : \E p \in AllPairs(c) :
        calc' = [fn |-> "point_mul", c |-> c, k |-> k, m |-> 0, p |-> p, q |-> None,
                    out |-> point_mul(c, k, p), out2 |-> None]

\* curve.point_mul(k, curve.point_mul(m, p)) on a valid point
CalcMulMul ==
    /\ calc.fn = "none"
    /\ UNCHANGED protoVars
    /\ \E c \in Curves : \E k \in 0..MaxScalar : \E m \in 0..MaxScalar :
       \E p \in Points(c) :
        calc' = [fn |-> "mul_mul", c |-> c, k |-> k, m |-> m, p |-> p,
                    q |-> point_mul(c, m, p),
                    out |-> point_mul(c, k, point_mul(c, m, p)), out2 |-> None]

\* Two key pairs of generate_keys and the shared point of each side:
\* client.py line 53 (out), server.py line 48 (out2).
CalcKeyAgree ==
    /\ calc.fn = "none"
    /\ UNCHANGED protoVars
    /\ \E c \in Curves : \E a \in 1..(c.n - 1) : \E b \in 1..(c.n - 1) :
        LET ka == generate_keys(c, a)
            kb == generate_keys(c, b)
        IN  calc' = [fn |-> "ecdh", c |-> c, k |-> ka[1], m |-> kb[1],
                        p |-> ka[2], q |-> kb[2],
                        out |-> point_mul(c, ka[1], kb[2]),
                        out2 |-> point_mul(c, kb[1], ka[2])]

InitArith == calc = NoCall /\ ProtoInit /\ mode = "dh"

NextArith ==
    \/ CalcPointAdd
    \/ CalcPointMul
    \/ CalcMulMul
    \/ CalcKeyAgree

SpecArith == InitArith /\ [][NextArith]_vars

\* ------------------------------------------------------------- the wire
RECURSIVE Power(_, _)
Power(b, e) == IF e = 0 THEN 1 ELSE b * Power(b, e - 1)

\* int.to_bytes(n, 'big'): n bytes, the most significant first.
to_bytes(v, n) == [i \in 1..n |-> (v \div Power(256, n - i)) % 256]

\* from_bytes reading the least significant byte first (byteorder 'little').
RECURSIVE from_bytes_little(_)
from_bytes_little(b) ==
    IF Len(b) = 0 THEN 0
    ELSE b[1] + 256 * from_bytes_little(Tail(b))

\* int.from_bytes(b, 'big'); 0 for the empty bytes object.
RECURSIVE from_bytes(_)
from_bytes(b) ==
    IF Len(b) = 0 THEN 0
    ELSE from_bytes(SubSeq(b, 1, Len(b) - 1)) * 256 + b[Len(b)]

\* The socket at the other end of r's connection.
PeerSock(r) == IF r = "client" THEN "conn" ELSE "client"

\* socket.recv returns once a frame has arrived, or the peer has closed.
CanRecv(r) == chan[r] # <<>> \/ sock[PeerSock(r)] = "closed"

\* What recv returns: the frame delivered whole, b'' at end of stream.
recv(r) == IF chan[r] # <<>> THEN Head(chan[r]) ELSE <<>>

\* --------------------------------------------------------- the processes
\* ClosedBy with the server's listening socket left open (no with block
\* around socket.socket of server.py line 74).
ClosedBy_conn_only(r) ==
    IF r = "client"
    THEN [sock EXCEPT !.client = "closed"]
    ELSE [sock EXCEPT !.conn = IF sock.conn = "open" THEN "closed" ELSE sock.conn]

\* An exception leaves every with block: the process's sockets are closed
\* and the process ends with a non-zero status.
ClosedBy(r) ==
    IF r = "client"
    THEN [sock EXCEPT !.client = "closed"]
    ELSE [sock EXCEPT !.listen = "closed",
                      !.conn = IF sock.conn = "open" THEN "closed" ELSE sock.conn]

Raise(r, e) ==
    /\ pc' = [pc EXCEPT ![r] = "Failed"]
    /\ err' = [err EXCEPT ![r] = e]
    /\ sock' = ClosedBy(r)

\* with open(<role>.<name>, "w") as f: f.write(...)
WriteFile(r, name, from, to) ==
    /\ pc[r] = from
    /\ IF disk_ok
       THEN /\ files' = [files EXCEPT ![r] = files[r] \cup {name}]
            /\ pc' = [pc EXCEPT ![r] = to]
            /\ UNCHANGED <<err, sock>>
       ELSE /\ Raise(r, "OSError")
            /\ UNCHANGED files
    /\ UNCHANGED <<calc, mode, priv, pub, data, peer, shared, chan, backlog, disk_ok>>

\* client.py lines 79-80: the socket is made and connects to the listener.
ClientConnect ==
    /\ pc["client"] = "Idle"
    /\ sock.listen = "open"
    /\ sock' = [sock EXCEPT !.client = "open"]
    /\ backlog' = backlog + 1
    /\ pc' = [pc EXCEPT !["client"] = "Connected"]
    /\ UNCHANGED <<calc, mode, priv, pub, data, peer, shared, files, err, chan, disk_ok>>

\* client.py line 80 with nobody listening: ConnectionRefusedError.
ClientConnectRefused ==
    /\ pc["client"] = "Idle"
    /\ sock.listen # "open"
    /\ Raise("client", "ConnectionRefusedError")
    /\ UNCHANGED <<calc, mode, priv, pub, data, peer, shared, files, chan, backlog, disk_ok>>

\* client.py lines 65-66
ClientDhKeygen ==
    /\ mode = "dh"
    /\ pc["client"] = "Connected"
    /\ \E c_priv \in 0..MaxPriv :
        /\ priv' = [priv EXCEPT !["client"] = c_priv]
        /\ pub' = [pub EXCEPT !["client"] = pow(dh_g, c_priv, dh_p)]
    /\ pc' = [pc EXCEPT !["client"] = "KeyGenerated"]
    /\ UNCHANGED <<calc, mode, data, peer, shared, files, err, chan, sock, backlog, disk_ok>>

\* client.py line 67
ClientDhSend ==
    /\ mode = "dh"
    /\ pc["client"] = "KeyGenerated"
    /\ chan' = [chan EXCEPT !["server"] = Append(@, to_bytes(pub["client"], FrameLen))]
    /\ pc' = [pc EXCEPT !["client"] = "LocalSent"]
    /\ UNCHANGED <<calc, mode, priv, pub, data, peer, shared, files, err, sock, backlog, disk_ok>>

\* client.py lines 68-69
ClientDhRecv ==
    /\ mode = "dh"
    /\ pc["client"] = "LocalSent"
    /\ CanRecv("client")
    /\ data' = [data EXCEPT !["client"] = recv("client")]
    /\ peer' = [peer EXCEPT !["client"] = from_bytes(recv("client"))]
    /\ chan' = [chan EXCEPT !["client"] = IF @ = <<>> THEN @ ELSE Tail(@)]
    /\ pc' = [pc EXCEPT !["client"] = "RemoteReceived"]
    /\ UNCHANGED <<calc, mode, priv, pub, shared, files, err, sock, backlog, disk_ok>>

\* client.py lines 70-71
ClientDhShared ==
    /\ mode = "dh"
    /\ pc["client"] = "RemoteReceived"
    /\ shared' = [shared EXCEPT !["client"] = pow(peer["client"], priv["client"], dh_p)]
    /\ pc' = [pc EXCEPT !["client"] = "SharedComputed"]
    /\ UNCHANGED <<calc, mode, priv, pub, data, peer, files, err, chan, sock, backlog, disk_ok>>

\* client.py lines 72-73
ClientDhWritePriv == mode = "dh" /\ WriteFile("client", "priv", "SharedComputed", "WrotePriv")

\* client.py lines 74-75
ClientDhWritePub == mode = "dh" /\ WriteFile("client", "pub", "WrotePriv", "WrotePub")

\* client.py lines 76-77
ClientDhWriteShared == mode = "dh" /\ WriteFile("client", "shared", "WrotePub", "Persisted")

\* client.py: the with blocks of lines 64 and 79 end, the process exits 0.
ClientExit ==
    /\ pc["client"] = "Persisted"
    /\ sock' = ClosedBy("client")
    /\ pc' = [pc EXCEPT !["client"] = "Exited"]
    /\ UNCHANGED <<calc, mode, priv, pub, data, peer, shared, files, err, chan, backlog, disk_ok>>

\* client.py line 48
ClientEcKeygen ==
    /\ mode = "ec"
    /\ pc["client"] = "Connected"
    /\ \E k \in 1..(curve_secp256r1.n - 1) :
        LET keys == generate_keys(curve_secp256r1, k)
        IN  /\ priv' = [priv EXCEPT !["client"] = keys[1]]
            /\ pub' = [pub EXCEPT !["client"] = keys[2]]
    /\ pc' = [pc EXCEPT !["client"] = "KeyGenerated"]
    /\ UNCHANGED <<calc, mode, data, peer, shared, files, err, chan, sock, backlog, disk_ok>>

\* client.py line 49: class Curve (ec.py lines 8-124) has no attribute
\* encode_pub, so the call raises AttributeError; lines 50-61 do not run.
ClientEcEncode ==
    /\ mode = "ec"
    /\ pc["client"] = "KeyGenerated"
    /\ Raise("client", "AttributeError")
    /\ UNCHANGED <<calc, mode, priv, pub, data, peer, shared, files, chan, backlog, disk_ok>>

\* server.py lines 74-76
ServerListen ==
    /\ pc["server"] = "Idle"
    /\ sock' = [sock EXCEPT !.listen = "open"]
    /\ pc' = [pc EXCEPT !["server"] = "Listening"]
    /\ UNCHANGED <<calc, mode, priv, pub, data, peer, shared, files, err, chan, backlog, disk_ok>>

\* server.py line 77
ServerAccept ==
    /\ pc["server"] = "Listening"
    /\ backlog > 0
    /\ backlog' = backlog - 1
    /\ sock' = [sock EXCEPT !.conn = "open"]
    /\ pc' = [pc EXCEPT !["server"] = "Connected"]
    /\ UNCHANGED <<calc, mode, priv, pub, data, peer, shared, files, err, chan, disk_ok>>

\* server.py lines 60-61; dh_gen_priv() of common.py draws the exponent as
\* the client does (random.getrandbits(4096), the comment of line 60).
ServerDhKeygen ==
    /\ mode = "dh"
    /\ pc["server"] = "Connected"
    /\ \E s_priv \in 0..MaxPriv :
        /\ priv' = [priv EXCEPT !["server"] = s_priv]
        /\ pub' = [pub EXCEPT !["server"] = pow(dh_g, s_priv, dh_p)]
    /\ pc' = [pc EXCEPT !["server"] = "KeyGenerated"]
    /\ UNCHANGED <<calc, mode, data, peer, shared, files, err, chan, sock, backlog, disk_ok>>

\* ServerDhRecv moving on as if the send of line 63 had been done with it.
ServerDhRecv_no_send ==
    /\ mode = "dh"
    /\ pc["server"] = "KeyGenerated"
    /\ CanRecv("server")
    /\ data' = [data EXCEPT !["server"] = recv("server")]
    /\ chan' = [chan EXCEPT !["server"] = IF @ = <<>> THEN @ ELSE Tail(@)]
    /\ pc' = [pc EXCEPT !["server"] = "LocalSent"]
    /\ UNCHANGED <<calc, mode, priv, pub, peer, shared, files, err, sock, backlog, disk_ok>>

\* server.py line 62
ServerDhRecv ==
    /\ mode = "dh"
    /\ pc["server"] = "KeyGenerated"
    /\ CanRecv("server")
    /\ data' = [data EXCEPT !["server"] = recv("server")]
    /\ chan' = [chan EXCEPT !["server"] = IF @ = <<>> THEN @ ELSE Tail(@)]
    /\ pc' = [pc EXCEPT !["server"] = "RemoteReceived"]
    /\ UNCHANGED <<calc, mode, priv, pub, peer, shared, files, err, sock, backlog, disk_ok>>

\* server.py line 63
ServerDhSend ==
    /\ mode = "dh"
    /\ pc["server"] = "RemoteReceived"
    /\ chan' = [chan EXCEPT !["client"] = Append(@, to_bytes(pub["server"], FrameLen))]
    /\ pc' = [pc EXCEPT !["server"] = "LocalSent"]
    /\ UNCHANGED <<calc, mode, priv, pub, data, peer, shared, files, err, sock, backlog, disk_ok>>

\* server.py lines 64-66
ServerDhShared ==
    /\ mode = "dh"
    /\ pc["server"] = "LocalSent"
    /\ LET c_pub == from_bytes(data["server"])
       IN  /\ peer' = [peer EXCEPT !["server"] = c_pub]
           /\ shared' = [shared EXCEPT !["server"] = pow(c_pub, priv["server"], dh_p)]
    /\ pc' = [pc EXCEPT !["server"] = "SharedComputed"]
    /\ UNCHANGED <<calc, mode, priv, pub, data, files, err, chan, sock, backlog, disk_ok>>

\* server.py lines 67-68
ServerDhWritePriv == mode = "dh" /\ WriteFile("server", "priv", "SharedComputed", "WrotePriv")

\* server.py lines 69-70
ServerDhWritePub == mode = "dh" /\ WriteFile("server", "pub", "WrotePriv", "WrotePub")

\* server.py lines 71-72
ServerDhWriteShared == mode = "dh" /\ WriteFile("server", "shared", "WrotePub", "Persisted")

\* server.py: the with blocks of lines 59 and 74 end, the process exits 0.
ServerExit ==
    /\ pc["server"] = "Persisted"
    /\ sock' = ClosedBy("server")
    /\ pc' = [pc EXCEPT !["server"] = "Exited"]
    /\ UNCHANGED <<calc, mode, priv, pub, data, peer, shared, files, err, chan, backlog, disk_ok>>

\* server.py line 43
ServerEcKeygen ==
    /\ mode = "ec"
    /\ pc["server"] = "Connected"
    /\ \E k \in 1..(curve_secp256r1.n - 1) :
        LET keys == generate_keys(curve_secp256r1, k)
        IN  /\ priv' = [priv EXCEPT !["server"] = keys[1]]
            /\ pub' = [pub EXCEPT !["server"] = keys[2]]
    /\ pc' = [pc EXCEPT !["server"] = "KeyGenerated"]
    /\ UNCHANGED <<calc, mode, data, peer, shared, files, err, chan, sock, backlog, disk_ok>>

\* server.py line 44
ServerEcRecv ==
    /\ mode = "ec"
    /\ pc["server"] = "KeyGenerated"
    /\ CanRecv("server")
    /\ data' = [data EXCEPT !["server"] = recv("server")]
    /\ chan' = [chan EXCEPT !["server"] = IF @ = <<>> THEN @ ELSE Tail(@)]
    /\ pc' = [pc EXCEPT !["server"] = "RemoteReceived"]
    /\ UNCHANGED <<calc, mode, priv, pub, peer, shared, files, err, sock, backlog, disk_ok>>

\* server.py line 45: class Curve has no attribute decode_pub, so the call
\* raises AttributeError; lines 46-56 do not run.
ServerEcDecode ==
    /\ mode = "ec"
    /\ pc["server"] = "RemoteReceived"
    /\ Raise("server", "AttributeError")
    /\ UNCHANGED <<calc, mode, priv, pub, data, peer, shared, files, chan, backlog, disk_ok>>

Init == calc = NoCall /\ ProtoInit

Next ==
    \/ ClientConnect
    \/ ClientConnectRefused
    \/ ClientDhKeygen
    \/ ClientDhSend
    \/ ClientDhRecv
    \/ ClientDhShared
    \/ ClientDhWritePriv
    \/ ClientDhWritePub
    \/ ClientDhWriteShared
    \/ ClientExit
    \/ ClientEcKeygen
    \/ ClientEcEncode
    \/ ServerListen
    \/ ServerAccept
    \/ ServerDhKeygen
    \/ ServerDhRecv
    \/ ServerDhSend
    \/ ServerDhShared
    \/ ServerDhWritePriv
    \/ ServerDhWritePub
    \/ ServerDhWriteShared
    \/ ServerExit
    \/ ServerEcKeygen
    \/ ServerEcRecv
    \/ ServerEcDecode

\* The exchange with every step succeeding in its environment.
Spec == Init /\ [][Next]_vars

\* ------------------------------------------------------- the environment
\* The peer, or anyone on the path, puts the frame of another integer on
\* the wire in place of a frame in flight.
Tamper ==
    /\ mode = "dh"
    /\ \E r \in Roles : \E v \in (dh_p - 1)..MaxWire :
        /\ chan[r] # <<>>
        /\ chan' = [chan EXCEPT ![r] = <<to_bytes(v, FrameLen)>> \o Tail(@)]
    /\ UNCHANGED <<calc, mode, pc, priv, pub, data, peer, shared, files, err, sock,
                   backlog, disk_ok>>

\* From now on open(..., "w") raises OSError (disk full, file not writable).
DiskFails ==
    /\ disk_ok
    /\ disk_ok' = FALSE
    /\ UNCHANGED <<calc, mode, pc, priv, pub, data, peer, shared, files, err, chan,
                   sock, backlog>>

NextEnv == Next \/ Tamper \/ DiskFails

\* The exchange with an interfering peer and a failing disk.
SpecEnv == Init /\ [][NextEnv]_vars

\* -------------------------------------------------- claims on the exchange
\* The exchange with every enabled step eventually taken.
SpecFair == Spec /\ WF_vars(Next)

\* In DH mode, once the client has connected both processes write their
\* three files and exit.
DhCompletes ==
    (mode = "dh" /\ pc["client"] = "Connected") ~>
        (\A r \in Roles : pc[r] = "Exited" /\ files[r] = AllFiles)

\* C2: DH agreement.  With pub_A = g^priv_A mod p and pub_B = g^priv_B mod p
\* the client's shared value pub_B^priv_A mod p equals the server's shared
\* value pub_A^priv_B mod p; for p = 23, g = 5, priv_A = 6, priv_B = 15 the
\* public values are 8 and 19 and both shared values are 2.
C2_DhAgreement ==
    (mode = "dh" /\ shared["client"] # Unset /\ shared["server"] # Unset) =>
        /\ pub["client"] = pow(dh_g, priv["client"], dh_p)
        /\ pub["server"] = pow(dh_g, priv["server"], dh_p)
        /\ shared["client"] = pow(pub["server"], priv["client"], dh_p)
        /\ shared["server"] = pow(pub["client"], priv["server"], dh_p)
        /\ shared["client"] = shared["server"]
        /\ (priv["client"] = 6 /\ priv["server"] = 15) =>
              /\ pub["client"] = 8
              /\ pub["server"] = 19
              /\ shared["client"] = 2
              /\ shared["server"] = 2

C2_Witness ==
    /\ mode = "dh"
    /\ dh_p = 23
    /\ dh_g = 5
    /\ priv["client"] = 6
    /\ priv["server"] = 15
    /\ pub["client"] = 8
    /\ pub["server"] = 19
    /\ shared["client"] = 2
    /\ shared["server"] = 2

\* C3: exchange completion.  When a client has connected to a listening
\* server in the same mode, DH or ECDH, both processes finish the exchange,
\* each having written its private key, public key and digest, and exit.
\* Stated on the final result: once both processes have ended, both have
\* exited normally with their three files written.
C3_Completion ==
    (pc["client"] \in Terminal /\ pc["server"] \in Terminal) =>
        \A r \in Roles : pc[r] = "Exited" /\ files[r] = AllFiles

\* C4: malformed peer input is rejected.  A process whose decoded peer
\* value is an integer >= p (DH) writes none of its three files and ends
\* with a MalformedWireValue failure.
C4_RejectMalformed ==
    \A r \in Roles :
        (mode = "dh" /\ peer[r] # Unset /\ peer[r] >= dh_p) =>
            /\ files[r] = {}
            /\ pc[r] \in Terminal =>
                  (pc[r] = "Failed" /\ err[r] = "MalformedWireValue")

\* C5: no partial artifacts.  A process that has failed after key
\* generation has written none of its three files, and at exit the set of
\* files written is empty or all three.
C5_NoPartialArtifacts ==
    \A r \in Roles :
        /\ pc[r] = "Failed" => files[r] = {}
        /\ pc[r] \in Terminal => files[r] \in {{}, AllFiles}

\* C11: socket scoping.  On every exit path of the client and of the
\* server, a failure included, every socket the process opened (the
\* client's socket; the server's listening socket and accepted connection)
\* is closed when the process has ended.
C11_SocketsClosed ==
    /\ pc["client"] \in Terminal => sock.client = "closed"
    /\ pc["server"] \in Terminal => (sock.listen = "closed" /\ sock.conn = "closed")

C11_Witness ==
    /\ pc["server"] = "Failed"
    /\ err["server"] = "OSError"
    /\ files["server"] = {"priv"}
    /\ sock.listen = "closed"
    /\ sock.conn = "closed"
    /\ pc["client"] = "Exited"
    /\ sock.client = "closed"

\* The state of the exchange a process is in: connecting and listening
\* are Idle, the three writes lead from SharedComputed to Persisted.
State(r) ==
    CASE pc[r] \in {"Idle", "Connected", "Listening"} -> "Idle"
      [] pc[r] \in {"SharedComputed", "WrotePriv", "WrotePub"} -> "SharedComputed"
      [] pc[r] \in {"Persisted", "Exited"} -> "Persisted"
      [] OTHER -> pc[r]

\* The state of process r after the step.
StateAfter(r) ==
    CASE pc'[r] \in {"Idle", "Connected", "Listening"} -> "Idle"
      [] pc'[r] \in {"SharedComputed", "WrotePriv", "WrotePub"} -> "SharedComputed"
      [] pc'[r] \in {"Persisted", "Exited"} -> "Persisted"
      [] OTHER -> pc'[r]

\* The order of the claim: the own value is sent before the peer's is
\* received.
SendFirst ==
    {<<"Idle", "KeyGenerated">>, <<"KeyGenerated", "LocalSent">>,
     <<"LocalSent", "RemoteReceived">>, <<"RemoteReceived", "SharedComputed">>,
     <<"SharedComputed", "Persisted">>}

\* The order of server.py: the peer's value is received before the own
\* value is sent.
RecvFirst ==
    {<<"Idle", "KeyGenerated">>, <<"KeyGenerated", "RemoteReceived">>,
     <<"RemoteReceived", "LocalSent">>, <<"LocalSent", "SharedComputed">>,
     <<"SharedComputed", "Persisted">>}

\* Every change of state of r is a step of the order, or a failure; a
\* failed process stays failed.
Follows(r, order) ==
    State(r) # StateAfter(r) =>
        /\ State(r) # "Failed"
        /\ StateAfter(r) = "Failed" \/ <<State(r), StateAfter(r)>> \in order

\* C12 as stated: every role, client and server, in DH and in ECDH mode,
\* goes through Idle, KeyGenerated, LocalSent, RemoteReceived,
\* SharedComputed, Persisted in exactly this order (it sends its public
\* value before it receives the peer's), and any failure leads to the
\* terminal state Failed.
C12_SendFirstBoth ==
    [][\A r \in Roles : Follows(r, SendFirst)]_vars

\* C12, amended: the client goes through Idle, KeyGenerated, LocalSent,
\* RemoteReceived, SharedComputed, Persisted in this order; the server
\* goes through Idle, KeyGenerated, RemoteReceived, LocalSent,
\* SharedComputed, Persisted (it receives before it sends); no state is
\* skipped or repeated, and any failure leads to the terminal state Failed.
C12_LinearOrder ==
    [][/\ Follows("client", SendFirst)
       /\ Follows("server", RecvFirst)]_vars

C12_Witness ==
    /\ mode = "dh"
    /\ pc["server"] = "LocalSent"
    /\ data["server"] = to_bytes(pub["client"], FrameLen)
    /\ pc["client"] = "LocalSent"
    /\ chan["client"] = <<to_bytes(pub["server"], FrameLen)>>

\* ------------------------------------------------ claims on the arithmetic

\* C1: ECDH agreement.  For every pair of private scalars a, b in 1..n-1
\* with A = point_mul(a, G) and B = point_mul(b, G), the client's shared
\* point point_mul(a, B) equals the server's shared point point_mul(b, A).
C1_EcdhAgreement ==
    calc.fn = "ecdh" =>
        /\ calc.p = point_mul(calc.c, calc.k, calc.c.G)
        /\ calc.q = point_mul(calc.c, calc.m, calc.c.G)
        /\ calc.out = calc.out2

C1_Witness ==
    /\ calc.fn = "ecdh"
    /\ calc.c = toy_curve
    /\ calc.k = 7
    /\ calc.m = 12
    /\ calc.out # None
    /\ calc.out = calc.out2

\* C6: identity element.  For every valid point p (infinity included),
\* point_add(p, None) = p and point_add(None, p) = p.
C6_Identity ==
    calc.fn = "point_add" =>
        /\ (calc.q = None => calc.out = calc.p)
        /\ (calc.p = None => calc.out = calc.q)

C6_Witness ==
    /\ calc.fn = "point_add"
    /\ calc.p = None
    /\ calc.q # None
    /\ calc.out = calc.q

\* C7: additive inverse.  For every valid affine point p,
\* point_add(p, negate(p)) is None, also when p.y = 0 and negate(p) = p.
C7_Inverse ==
    (calc.fn = "point_add" /\ calc.p # None /\ calc.q # None) =>
        (calc.q = negate(calc.c, calc.p) => calc.out = None)

C7_Witness ==
    /\ calc.fn = "point_add"
    /\ calc.p # None
    /\ calc.p[2] = 0
    /\ calc.q = negate(calc.c, calc.p)
    /\ calc.q = calc.p
    /\ calc.out = None

\* C8: for every valid point p and all scalars k, m >= 0,
\* point_mul(k, point_mul(m, p)) = point_mul((k * m) mod n, p).
C8_MulAssoc ==
    calc.fn = "mul_mul" =>
        calc.out = point_mul(calc.c, (calc.k * calc.m) % calc.c.n, calc.p)

C8_Witness ==
    /\ calc.fn = "mul_mul"
    /\ calc.c = toy_curve
    /\ calc.k * calc.m > calc.c.n
    /\ calc.p # None
    /\ calc.out # None
    /\ calc.out # calc.p
    /\ calc.out = point_mul(calc.c, (calc.k * calc.m) % calc.c.n, calc.p)

\* C9: scalar edge cases.  For every point p, point_mul(0, p) is None and
\* point_mul(1, p) is p.
C9_ScalarEdge ==
    calc.fn = "point_mul" =>
        /\ (calc.k = 0 => calc.out = None)
        /\ (calc.k = 1 => calc.out = calc.p)

C9_Witness ==
    /\ calc.fn = "point_mul"
    /\ calc.k = 1
    /\ calc.p # None
    /\ calc.out = calc.p

\* C10: the toy-curve fixture.  On toy_curve, point_mul(2, G) is the
\* doubling of (5, 1) modulo 17: slope 13, result (6, 3), and it equals
\* point_add(G, G).
C10_ToyFixture ==
    (calc.fn = "point_mul" /\ calc.c = toy_curve /\ calc.k = 2
        /\ calc.p = toy_curve.G) =>
        /\ calc.p = <<5, 1>>
        /\ double_slope(toy_curve, calc.p) = 13
        /\ calc.out = <<6, 3>>
        /\ calc.out = point_add(toy_curve, calc.p, calc.p)

C10_Witness ==
    /\ calc.fn = "point_mul"
    /\ calc.c = toy_curve
    /\ calc.k = 2
    /\ calc.p = <<5, 1>>
    /\ calc.out = <<6, 3>>

\* Whether point_add(p, q) reaches a modular inverse: both points affine
\* and the test of line 55 false.
ReachesInverse(p, q) ==
    /\ p # None
    /\ q # None
    /\ ~(p[1] = q[1] /\ (p[2] # q[2] \/ p[2] = 0))

\* C13: the inverse never fails on valid input.  For all valid points p, q
\* point_add inverts only after the tests of lines 45-56: the value
\* inverted (2*p.y when doubling, q.x - p.x otherwise) is not congruent to
\* 0 modulo the prime, and no error is raised.
C13_InverseDefined ==
    calc.fn = "point_add" =>
        /\ calc.out # ValueError
        /\ ReachesInverse(calc.p, calc.q) =>
              IF calc.p = calc.q
              THEN /\ (2 * calc.p[2]) % calc.c.p # 0
                   /\ inv_mod(2 * calc.p[2], calc.c.p) # NoInverse
              ELSE /\ (calc.q[1] - calc.p[1]) % calc.c.p # 0
                   /\ inv_mod(calc.q[1] - calc.p[1], calc.c.p) # NoInverse

C13_Witness ==
    /\ calc.fn = "point_add"
    /\ ReachesInverse(calc.p, calc.q)
    /\ calc.p # calc.q
    /\ calc.q[1] < calc.p[1]
    /\ Len(calc.out) = 2

\* The reference: p added to infinity k times with point_add.
RECURSIVE repeat_add(_, _, _)
repeat_add(c, k, p) ==
    IF k = 0 THEN None ELSE point_add(c, repeat_add(c, k - 1, p), p)

\* C14: double-and-add matches the reference.  For every k >= 0 and every
\* valid point p, point_mul(k, p) is the point obtained by adding p to
\* infinity k times.
C14_DoubleAndAdd ==
    (calc.fn = "point_mul" /\ on_curve(calc.c, calc.p)) =>
        calc.out = repeat_add(calc.c, calc.k, calc.p)

C14_Witness ==
    /\ calc.fn = "point_mul"
    /\ on_curve(calc.c, calc.p)
    /\ calc.p # None
    /\ calc.k = 13
    /\ Len(calc.out) = 2
    /\ calc.out = repeat_add(calc.c, 13, calc.p)

\* C15: key generation.  Every key pair of generate_keys has a private
\* scalar in 1..n-1 and the public value point_mul(priv, G), which is an
\* affine point, never infinity.
C15_KeyPair ==
    calc.fn = "ecdh" =>
        /\ calc.k \in 1..(calc.c.n - 1)
        /\ calc.m \in 1..(calc.c.n - 1)
        /\ calc.p = point_mul(calc.c, calc.k, calc.c.G)
        /\ calc.q = point_mul(calc.c, calc.m, calc.c.G)
        /\ Len(calc.p) = 2
        /\ Len(calc.q) = 2

C15_Witness ==
    /\ calc.fn = "ecdh"
    /\ calc.k = calc.c.n - 1
    /\ calc.m = 1
    /\ Len(calc.p) = 2
    /\ calc.q = calc.c.G

\* C17: the parameters of the toy curve.  G = (5, 1) satisfies
\* y^2 = x^3 + a*x + b (mod 17), point_mul(n, G) is infinity, and
\* point_mul(k, G) is an affine point for 0 < k < n: n is the order of G.
C17_ToyOrder ==
    (calc.fn = "point_mul" /\ calc.c = toy_curve /\ calc.p = calc.c.G) =>
        /\ calc.p # None
        /\ on_curve(calc.c, calc.p)
        /\ calc.k = calc.c.n => calc.out = None
        /\ (0 < calc.k /\ calc.k < calc.c.n) => Len(calc.out) = 2

C17_Witness ==
    /\ calc.fn = "point_mul"
    /\ calc.c = toy_curve
    /\ calc.c.p = 17
    /\ calc.p = <<5, 1>>
    /\ calc.k = 19
    /\ calc.c.n = 19
    /\ calc.out = None

\* C18: closure.  For all valid points p and q, point_add(p, q) is
\* infinity or a pair of coordinates in 0..prime-1 on the curve; so is
\* every value point_mul produces from a valid point.
C18_Closure ==
    /\ calc.fn = "point_add" => on_curve(calc.c, calc.out)
    /\ (calc.fn = "point_mul" /\ on_curve(calc.c, calc.p)) =>
          on_curve(calc.c, calc.out)
    /\ calc.fn = "mul_mul" =>
          (on_curve(calc.c, calc.q) /\ on_curve(calc.c, calc.out))
    /\ calc.fn = "ecdh" =>
          /\ on_curve(calc.c, calc.p)
          /\ on_curve(calc.c, calc.q)
          /\ on_curve(calc.c, calc.out)
          /\ on_curve(calc.c, calc.out2)

C18_Witness ==
    /\ calc.fn = "point_add"
    /\ ReachesInverse(calc.p, calc.q)
    /\ calc.p # calc.q
    /\ Len(calc.out) = 2
    /\ calc.out # calc.p
    /\ on_curve(calc.c, calc.out)

IsPrime(n) == n > 1 /\ \A d \in 2..(n - 1) : n % d # 0

\* C19: the shared point of honest peers is never infinity.  On a curve
\* whose base point has prime order n, for all private scalars a, b in
\* 1..n-1 the shared point point_mul(a, point_mul(b, G)) is affine.
C19_SharedAffine ==
    (calc.fn = "ecdh" /\ IsPrime(calc.c.n)) =>
        /\ calc.out = point_mul(calc.c, calc.k, point_mul(calc.c, calc.m, calc.c.G))
        /\ Len(calc.out) = 2
        /\ Len(calc.out2) = 2

C19_Witness ==
    /\ calc.fn = "ecdh"
    /\ IsPrime(calc.c.n)
    /\ calc.k = 18
    /\ calc.m = 18
    /\ Len(calc.out) = 2
    /\ Len(calc.out2) = 2

\* Values of more than one byte that still fit a frame of FrameLen bytes.
WireSamples == {255, 256, 257, 65535, 65536, 65537}

\* The role at the other end of r's connection.
Other(r) == IF r = "client" THEN "server" ELSE "client"

\* C16: DH wire round trip.  For every v with 0 <= v < p, decoding the
\* big-endian frame of v gives v again (and so for the multi-byte samples);
\* in a run, the frame a role received is the frame of its peer's public
\* value, the integer it decoded is that public value, and its shared value
\* is computed from exactly that integer.
C16_WireRoundTrip ==
    /\ \A v \in (0..(dh_p - 1)) \cup WireSamples :
          /\ Len(to_bytes(v, FrameLen)) = FrameLen
          /\ from_bytes(to_bytes(v, FrameLen)) = v
    /\ \A r \in Roles :
          (mode = "dh" /\ peer[r] # Unset) =>
              /\ data[r] = to_bytes(pub[Other(r)], FrameLen)
              /\ peer[r] = pub[Other(r)]
              /\ shared[r] # Unset => shared[r] = pow(pub[Other(r)], priv[r], dh_p)

C16_Witness ==
    /\ mode = "dh"
    /\ \A r \in Roles :
          /\ shared[r] # Unset
          /\ peer[r] = pub[Other(r)]
          /\ peer[r] > 1
    /\ pub["client"] # pub["server"]
    /\ from_bytes(data["client"]) = pub["server"]
    /\ from_bytes(data["server"]) = pub["client"]

=============================================================================
